---- MODULE Spec2Model ----
(***************************************************************************)
(* A model of main.py of the Lodestone recipe scraper: the response cache, *)
(* the rate-limited fetcher, the pagination walker, the per-class run that *)
(* writes the output files, the extraction of a recipe and of an item from *)
(* their pages, the name-override merge and the assembly of a class.       *)
(*                                                                         *)
(* The program runs on one asyncio event loop: the code between two awaits *)
(* is atomic, so every action below is one such stretch of one task.       *)
(***************************************************************************)
EXTENDS Integers, Sequences, FiniteSets, TLC

(***************************************************************************)
(* Bounds of the model.                                                    *)
(***************************************************************************)
\* tasks that fetch concurrently in the pool specification
NumTasks == 2
\* 429 answers the server gives to the single fetch of SpecFetch
Max429 == 10
\* 429 answers the server gives in the pool specification
MaxPool429 == 1
\* args.concurrency, the size of FETCH_SEMAPHORE (main.py:512)
Concurrency == 1

(***************************************************************************)
(* Program constants.                                                      *)
(***************************************************************************)
\* main.py:27
CACHE_EXPIRY == 60 * 60 * 12
\* main.py:165, the failure budget of fetch
MaxTries == 5
\* main.py:183, the fixed backoff after a failure
BackoffSleep == 5
VARIABLES
    \* ---- the response cache and the clock
    now,          \* time.time()
    cache,        \* .cache/<key>: NoEntry or [text, mtime]
    \* ---- fetch, one entry per task
    pc,           \* where the task is in fetch
    err_count,    \* the local err_count of fetch
    holds,        \* the task is inside "async with FETCH_SEMAPHORE"
    permits,      \* FETCH_SEMAPHORE._value
    result,       \* what fetch returned
    slept,        \* the duration of the asyncio.sleep the task is in
    aborted,      \* SystemExit left the event loop: the process is gone
    \* ---- what the server did (history, read by the properties only)
    quota,        \* 429 answers the server may still give
    gets,         \* session.get calls issued by the task
    n429,         \* 429 answers the task received
    clean,        \* every failure counted so far was a transient failure
    lastEvent,    \* the last thing that happened to the task
    track,        \* whether gets, n429, clean and lastEvent are kept
    \* ---- two requests and their cache keys (get_cache_key)
    kreq,         \* the url and the two params mappings of the requests
    kkeys,        \* the keys computed so far, in call order
    \* ---- the cache on its own (get_cached_text, cache_text and the clock)
    ticks,        \* how often the clock has moved
    lastLookup,   \* the last get_cached_text: when, of which file, the outcome
    \* ---- the pagination walker (fetch_recipe_links_range, fetch_item_links_range)
    wkind,        \* which of the two walkers runs
    wpc,          \* where the walker is
    page,         \* the local page
    links,        \* the local links
    last,         \* the locals page_links, show_end, total of the page last parsed
    requested,    \* the page requests issued, in order (history)
    served,       \* the pages parsed, in order (history)
    overflow,     \* page has passed PageCap: page, links and the histories stand still
    \* ---- the run (async_main, scrape_classes, scrape_buffs)
    plan,         \* what the run scrapes, in order: classes, then item categories
    target,       \* the place in plan of the class or category in work
    phase,        \* where fetch_class or fetch_items_category is
    walkersLeft,  \* link walkers of the target that have not returned
    found,        \* links the returned walkers have brought
    entLeft,      \* entity fetches of the target that have not returned
    files,        \* the output files out/<name>.json, one per place in plan
    exit,         \* how the process ended, "running" while it has not
    started,      \* places whose fetch was started (history)
    okWalks,      \* link walks that returned, per place (history)
    okEnts,       \* entity fetches that returned, per place (history)
    \* ---- one recipe page and what fetch_recipe makes of it
    rpage,        \* the parsed pages of the recipe
    rout,         \* how fetch_recipe ended: the record it returned, or the exit
    \* ---- one item page and what fetch_item makes of it
    ipage,        \* the parsed pages of the item
    iout,         \* how fetch_item ended: the records it returned
    \* ---- the name-override merge
    mover,        \* additional_languages: <<locale, mapping>> in insertion order
    mnames,       \* the name maps of the collection
    mbefore,      \* the name maps before the last merge (history)
    mfirst,       \* the name maps after the first merge (history)
    mcount,       \* merges applied so far
    \* ---- fetch_class: the links, the recipes, the collection
    cphase,       \* where fetch_class is
    cpending,     \* link categories whose walker has not returned
    clisted,      \* what the listing of each category holds
    clinks,       \* the local links of fetch_recipe_links
    ctodo,        \* places of clinks whose fetch_recipe has not returned
    crecipes,     \* the recipes collected, then the collection returned
    \* ---- the fetch primitives of buffs.py and food.py
    bprim,        \* the primitive that runs
    bpc,          \* where it is in its loop
    bholds,       \* it holds a permit of FETCH_SEMAPHORE
    bdata,        \* its local data
    blast,        \* history: how the last attempt ended
    battempts     \* history: requests issued, standing still at MaxAttempts

cacheVars == <<now, cache>>
fetchVars == <<pc, err_count, holds, permits, result, slept, aborted>>
histVars == <<quota, gets, n429, clean, lastEvent, track>>

keyVars == <<kreq, kkeys>>

lookupVars == <<ticks, lastLookup>>

walkVars == <<wkind, wpc, page, links, last, requested, served, overflow>>

runVars == <<plan, target, phase, walkersLeft, found, entLeft, files, exit, started,
             okWalks, okEnts>>

recipeVars == <<rpage, rout>>

itemVars == <<ipage, iout>>

mergeVars == <<mover, mnames, mbefore, mfirst, mcount>>

classVars == <<cphase, cpending, clisted, clinks, ctodo, crecipes>>

buffVars == <<bprim, bpc, bholds, bdata, blast, battempts>>

entityVars == <<recipeVars, itemVars, mergeVars, classVars, buffVars>>

nonFetchVars == <<keyVars, lookupVars, walkVars, runVars, entityVars>>
nonKeyVars == <<cacheVars, fetchVars, histVars, lookupVars, walkVars, runVars, entityVars>>
nonCacheVars == <<fetchVars, histVars, keyVars, walkVars, runVars, entityVars>>
nonWalkVars == <<cacheVars, fetchVars, histVars, keyVars, lookupVars, runVars, entityVars>>
nonRunVars == <<cacheVars, fetchVars, histVars, keyVars, lookupVars, walkVars, entityVars>>

programVars == <<cacheVars, fetchVars, histVars, keyVars, lookupVars, walkVars, runVars>>
nonRecipeVars == <<programVars, itemVars, mergeVars, classVars, buffVars>>
nonItemVars == <<programVars, recipeVars, mergeVars, classVars, buffVars>>
nonMergeVars == <<programVars, recipeVars, itemVars, classVars, buffVars>>
nonClassVars == <<programVars, recipeVars, itemVars, mergeVars, buffVars>>
nonBuffVars == <<programVars, recipeVars, itemVars, mergeVars, classVars>>

Tasks == 1 .. NumTasks

----------------------------------------------------------------------------
(***************************************************************************)
(* The response cache (main.py 136-155).  A cache file is NoEntry or a     *)
(* record of its text and its modification time.                           *)
(***************************************************************************)
NoEntry == [present |-> FALSE, text |-> <<>>, mtime |-> 0]

Entry(text, mtime) == [present |-> TRUE, text |-> text, mtime |-> mtime]

\* an expiry test that takes the boundary too
ExpiredInclusive(mtime, t) == mtime <= t - CACHE_EXPIRY

\* main.py:142, s.st_mtime < time.time() - CACHE_EXPIRY
Expired(mtime, t) == mtime < t - CACHE_EXPIRY

\* the content of a cache file that is not UTF-8: a write that was cut
\* short, a damaged file
Undecodable == <<"undecodable">>

\* get_cached_text: the text returned ("" with hit = FALSE for None) and the
\* cache file as the lookup leaves it (an expired file is removed).  Only
\* FileNotFoundError is caught: raised = TRUE when f.read() raises
\* UnicodeDecodeError, which leaves get_cached_text.
GetCachedText(e, t) ==
    IF ~e.present THEN [raised |-> FALSE, hit |-> FALSE, text |-> <<>>, entry |-> NoEntry]
    ELSE IF Expired(e.mtime, t)
    THEN [raised |-> FALSE, hit |-> FALSE, text |-> <<>>, entry |-> NoEntry]
    ELSE IF e.text = Undecodable
    THEN [raised |-> TRUE, hit |-> FALSE, text |-> <<>>, entry |-> e]
    ELSE [raised |-> FALSE, hit |-> TRUE, text |-> e.text, entry |-> e]

\* get_cached_text when the file is there for os.stat and gone (removed by
\* another process) for os.remove or open: FileNotFoundError, which is caught
GetCachedTextRaced(e, t) ==
    [raised |-> FALSE, hit |-> FALSE, text |-> <<>>, entry |-> NoEntry]

\* cache_text: the file is written whole, its mtime is the time of the write
CacheText(text, t) == Entry(text, t)

\* the document the server holds for the request of task t
BodyOf(t) == <<"body", t>>

\* a document without the show_end and total counters of a listing
Malformed == <<"malformed">>

\* parse_links_page: indexing the empty result of the xpath raises
Parses(text) == text # Malformed

\* the clock moves at most this often in the cache specification
MaxTicks == 4

\* the steps of the clock: a second, the expiry, a second less
ClockSteps == {1, CACHE_EXPIRY - 1, CACHE_EXPIRY}

NoLookup == [done |-> FALSE, at |-> 0, file |-> NoEntry, hit |-> FALSE, text |-> <<>>,
             left |-> NoEntry]

InitLookupIdle == ticks = 0 /\ lastLookup = NoLookup

\* time passes
Tick(d) ==
    /\ ticks < MaxTicks
    /\ ticks' = ticks + 1
    /\ now' = now + d
    /\ UNCHANGED <<cache, lastLookup, nonCacheVars>>

\* cache_text(text, url) at the present time
CacheStore(k) ==
    /\ cache' = [cache EXCEPT ![k] = CacheText(BodyOf(k), now)]
    /\ UNCHANGED <<now, lookupVars, nonCacheVars>>

\* get_cached_text(url) at the present time
CacheLookup(k) ==
    LET r == GetCachedText(cache[k], now)
    IN /\ cache' = [cache EXCEPT ![k] = r.entry]
       /\ lastLookup' = [done |-> TRUE, at |-> now, file |-> cache[k], hit |-> r.hit,
                         text |-> r.text, left |-> r.entry]
       /\ UNCHANGED <<now, ticks, nonCacheVars>>

----------------------------------------------------------------------------
(***************************************************************************)
(* get_cache_key (main.py 123-133).  A Python dict is the sequence of its  *)
(* <<name, value>> items in insertion order.  The key is the SHA-1 digest  *)
(* of the bytes fed to the hash; SHA-1 is taken to be injective on them,   *)
(* so the key is modelled by the sequence of the pieces fed.               *)
(***************************************************************************)
\* the largest parameter value of the requests drawn
MaxValue == 1

\* main.py:24-25
Urls == {"recipe/", "item/"}

\* main.py:199-203
ParamNames == {"category2", "category3", "page"}

ParamValues == 0 .. MaxValue

\* the place of a keyword in sorted order (list.sort of str, main.py:127)
NameRank(n) ==
    CASE n = "category2" -> 1 [] n = "category3" -> 2 [] n = "page" -> 3
      [] n = "params" -> 4

Names(d) == {d[i][1] : i \in 1 .. Len(d)}

Lookup(d, n) == (CHOOSE i \in 1 .. Len(d) : d[i][1] = n)

\* the dicts over ParamNames: sequences of items with distinct names
RECURSIVE DictsOfLen(_)
DictsOfLen(n) ==
    IF n = 0 THEN {<<>>}
    ELSE {Append(d, <<k, v>>) : d \in DictsOfLen(n - 1), k \in ParamNames, v \in ParamValues}

Dicts == {d \in UNION {DictsOfLen(n) : n \in 0 .. Cardinality(ParamNames)} :
             Cardinality(Names(d)) = Len(d)}

Items(d) == {d[i] : i \in 1 .. Len(d)}

\* main.py:126-127: the keywords of kwargs, sorted
RECURSIVE SortedKeys(_)
SortedKeys(names) ==
    IF names = {} THEN <<>>
    ELSE LET first == CHOOSE n \in names : \A m \in names : NameRank(n) <= NameRank(m)
         IN <<first>> \o SortedKeys(names \ {first})

\* str(n) of an int below ten
StrInt(n) == <<"0", "1", "2", "3", "4", "5", "6", "7", "8", "9">>[n + 1]

\* str(d) of a dict: its items in insertion order, "{'category2': 0, 'page': 1}"
RECURSIVE StrItems(_)
StrItems(d) ==
    IF d = <<>> THEN <<>>
    ELSE <<"'", Head(d)[1], "': ", StrInt(Head(d)[2])>>
         \o (IF Len(d) > 1 THEN <<", ">> ELSE <<>>) \o StrItems(Tail(d))

StrDict(d) == <<"{">> \o StrItems(d) \o <<"}">>

\* main.py:128-132: what is fed to the hash for the keywords ks of kwargs
RECURSIVE Fed(_, _)
Fed(kwargs, ks) ==
    IF ks = <<>> THEN <<>>
    ELSE <<Head(ks), "=">> \o StrDict(kwargs[Lookup(kwargs, Head(ks))][2]) \o <<";">>
         \o Fed(kwargs, Tail(ks))

\* get_cache_key(url, **kwargs)
GetCacheKey(url, kwargs) == <<url>> \o Fed(kwargs, SortedKeys(Names(kwargs)))

\* main.py:160 and 204: fetch(session, url, params=P) hands get_cache_key the
\* one keyword params, whose value is the mapping P
FetchKwargs(params) == <<<<"params", params>>>>

\* the second request: the same entries, inserted in any order
Reorderings(a) == {d \in Dicts : Items(d) = Items(a)}

RequestPairs ==
    UNION {{[url |-> u, a |-> a, b |-> b] : u \in Urls, b \in Reorderings(a)} : a \in Dicts}

NoRequest == [url |-> "", a |-> <<>>, b |-> <<>>]

InitKeyIdle == kreq = NoRequest /\ kkeys = <<>>

\* the first request's key
KeyFirst ==
    /\ kreq # NoRequest
    /\ kkeys = <<>>
    /\ kkeys' = <<GetCacheKey(kreq.url, FetchKwargs(kreq.a))>>
    /\ UNCHANGED <<kreq, nonKeyVars>>

\* the second request's key
KeySecond ==
    /\ Len(kkeys) = 1
    /\ kkeys' = Append(kkeys, GetCacheKey(kreq.url, FetchKwargs(kreq.b)))
    /\ UNCHANGED <<kreq, nonKeyVars>>

----------------------------------------------------------------------------
(***************************************************************************)
(* Responses of the server to session.get (main.py 169-176).               *)
(***************************************************************************)
\* response headers: a set of <<name, value>> pairs
NoHeaders == {}

RetryAfterValues == {"", "0", "3", "soon"}

HeaderSets == {NoHeaders} \cup {{<<"retry-after", v>>} : v \in RetryAfterValues}

\* raised: session.get raised (a transport failure) instead of answering
Responses ==
    {[raised |-> TRUE, status |-> 0, headers |-> NoHeaders]}
    \cup {[raised |-> FALSE, status |-> s, headers |-> NoHeaders] : s \in {200, 500}}
    \cup {[raised |-> FALSE, status |-> 429, headers |-> h] : h \in HeaderSets}

\* int(s) of Python on the strings of the model: defined on decimal strings only
IsInt(s) == s \in {"0", "3", "5"}

IntOf(s) == CASE s = "0" -> 0 [] s = "3" -> 3 [] s = "5" -> 5

\* what the environment last did to a task: the lookup's outcome, the server's
\* answer, or the outcome of reading and storing the body
NoResponse == [raised |-> FALSE, status |-> 0, headers |-> NoHeaders]

Event(kind, res) == [kind |-> kind, res |-> res]

\* a failure C1 calls transient: a transport exception or a status that is
\* neither 200 nor 429
IsTransient(res) == res.raised \/ res.status \notin {200, 429}

\* a 429 answer that carries an integer retry-after header
IsRateLimit(res) == ~res.raised /\ res.status = 429

IntegerRetryAfter(res) ==
    IsRateLimit(res) /\ res.headers \in {{<<"retry-after", "0">>}, {<<"retry-after", "3">>}}

\* the new value of a history variable: f with f[t] = v when histories are kept
Noted(f, t, v) == IF track THEN [f EXCEPT ![t] = v] ELSE f

HasHeader(h, name) == \E p \in h : p[1] = name

HeaderValue(h, name) == (CHOOSE p \in h : p[1] = name)[2]

\* the header is never found (a lookup under another name): every 429 raises
RetryAfterNeverFound(h) == [ok |-> FALSE, val |-> 0]

\* main.py:171, int(res.headers["retry-after"] or '5'): ok = FALSE when the
\* expression raises (KeyError on a missing header, ValueError from int)
RetryAfter(h) ==
    IF ~HasHeader(h, "retry-after") THEN [ok |-> FALSE, val |-> 0]
    ELSE LET raw == HeaderValue(h, "retry-after")
             s == IF raw = "" THEN "5" ELSE raw
         IN IF IsInt(s) THEN [ok |-> TRUE, val |-> IntOf(s)]
            ELSE [ok |-> FALSE, val |-> 0]

----------------------------------------------------------------------------
(***************************************************************************)
(* fetch (main.py 158-186).                                                *)
(***************************************************************************)
\* a loop test that lets one more attempt through
BudgetLeftOffByOne(e) == e <= MaxTries

\* main.py:165, while err_count < 5
BudgetLeft(e) == e < MaxTries

\* a request issued without waiting for a permit
PermitFreeAlways(p) == TRUE

\* main.py:168: asyncio.Semaphore.acquire returns only while a permit is left
PermitFree(p) == p > 0

\* main.py:160-164: the cache lookup that opens fetch; raced: the file goes
\* away between os.stat and open.  An exception of the lookup is outside the
\* try of fetch: it leaves fetch and the event loop, and the process ends.
FetchStart(t, raced) ==
    /\ ~aborted
    /\ pc[t] = "start"
    /\ raced => cache[t].present
    /\ LET r == IF raced THEN GetCachedTextRaced(cache[t], now)
                ELSE GetCachedText(cache[t], now)
       IN /\ cache' = [cache EXCEPT ![t] = r.entry]
          /\ IF r.raised
             THEN /\ pc' = [pc EXCEPT ![t] = "crashed"]
                  /\ aborted' = TRUE
                  /\ lastEvent' = Noted(lastEvent, t, Event("lookupraised", NoResponse))
                  /\ UNCHANGED <<result, err_count>>
             ELSE IF r.hit
             THEN /\ pc' = [pc EXCEPT ![t] = "returned"]
                  /\ result' = [result EXCEPT ![t] = r.text]
                  /\ aborted' = ~Parses(r.text)
                  /\ lastEvent' = Noted(lastEvent, t, Event("hit", NoResponse))
                  /\ UNCHANGED err_count
             ELSE /\ pc' = [pc EXCEPT ![t] = "loop"]
                  /\ err_count' = [err_count EXCEPT ![t] = 0]
                  /\ lastEvent' = Noted(lastEvent, t, Event("miss", NoResponse))
                  /\ UNCHANGED <<aborted, result>>
    /\ UNCHANGED <<now, holds, permits, slept, quota, gets, n429, clean, track>>
    /\ UNCHANGED nonFetchVars

\* main.py:165-169: the loop test, the semaphore and session.get
FetchGet(t) ==
    /\ ~aborted
    /\ pc[t] = "loop"
    /\ BudgetLeft(err_count[t])
    /\ PermitFree(permits)
    /\ permits' = permits - 1
    /\ holds' = [holds EXCEPT ![t] = TRUE]
    /\ gets' = Noted(gets, t, gets[t] + 1)
    /\ pc' = [pc EXCEPT ![t] = "inflight"]
    /\ UNCHANGED <<cacheVars, err_count, result, slept, aborted, quota, n429, clean, lastEvent, track>>
    /\ UNCHANGED nonFetchVars

\* main.py:185-186: the budget is spent, SystemExit ends the process
FetchGiveUp(t) ==
    /\ ~aborted
    /\ pc[t] = "loop"
    /\ ~BudgetLeft(err_count[t])
    /\ pc' = [pc EXCEPT ![t] = "fatal"]
    /\ aborted' = TRUE
    /\ UNCHANGED <<cacheVars, err_count, holds, permits, result, slept, histVars>>
    /\ UNCHANGED nonFetchVars

\* main.py:181-183: the bare except; the exception has left both "async with"
\* blocks, so the permit is back before the sleep starts
Failed(t, event) ==
    /\ err_count' = [err_count EXCEPT ![t] = @ + 1]
    /\ permits' = permits + 1
    /\ holds' = [holds EXCEPT ![t] = FALSE]
    /\ slept' = [slept EXCEPT ![t] = BackoffSleep]
    /\ pc' = [pc EXCEPT ![t] = "backoff"]
    /\ clean' = Noted(clean, t, clean[t] /\ event.kind = "response" /\ IsTransient(event.res))
    /\ lastEvent' = Noted(lastEvent, t, event)

\* main.py:169-176: the answer to session.get arrives
FetchRespond(t, res) ==
    /\ ~aborted
    /\ pc[t] = "inflight"
    /\ res.status = 429 => quota > 0
    /\ IF res.raised
       THEN /\ Failed(t, Event("response", res))
            /\ UNCHANGED <<quota, n429>>
       ELSE IF res.status = 429
       THEN /\ quota' = quota - 1
            /\ n429' = Noted(n429, t, n429[t] + 1)
            /\ LET ra == RetryAfter(res.headers)
               IN IF ra.ok
                  THEN /\ slept' = [slept EXCEPT ![t] = ra.val]
                       /\ pc' = [pc EXCEPT ![t] = "sleep429"]
                       /\ lastEvent' = Noted(lastEvent, t, Event("response", res))
                       /\ clean' = Noted(clean, t, clean[t] /\ IntegerRetryAfter(res))
                       /\ UNCHANGED <<err_count, permits, holds>>
                  ELSE Failed(t, Event("response", res))
       ELSE IF res.status # 200
       THEN /\ Failed(t, Event("response", res))
            /\ UNCHANGED <<quota, n429>>
       ELSE /\ pc' = [pc EXCEPT ![t] = "reading"]
            /\ lastEvent' = Noted(lastEvent, t, Event("response", res))
            /\ UNCHANGED <<err_count, permits, holds, slept, clean, quota, n429>>
    /\ UNCHANGED <<cacheVars, result, aborted, gets, track>>
    /\ UNCHANGED nonFetchVars

\* main.py:176-178: res.text() ends; read = FALSE when it raises, stored =
\* FALSE when cache_text raises (the cache file cannot be written),
\* wellformed = FALSE when the body lacks the counters.  fetch has returned
\* when its caller parses the text (main.py:204, 371): the exception of
\* parse_links_page is raised outside the try of fetch and ends the run
FetchRead(t, read, stored, wellformed) ==
    /\ ~aborted
    /\ pc[t] = "reading"
    /\ IF ~read
       THEN /\ Failed(t, Event("readfail", NoResponse))
            /\ UNCHANGED <<cache, result, aborted>>
       ELSE IF ~stored
       THEN /\ Failed(t, Event("storefail", NoResponse))
            /\ UNCHANGED <<cache, result, aborted>>
       ELSE LET text == IF wellformed THEN BodyOf(t) ELSE Malformed
            IN /\ cache' = [cache EXCEPT ![t] = CacheText(text, now)]
               /\ result' = [result EXCEPT ![t] = text]
               /\ permits' = permits + 1
               /\ holds' = [holds EXCEPT ![t] = FALSE]
               /\ pc' = [pc EXCEPT ![t] = "returned"]
               /\ aborted' = ~Parses(text)
               /\ lastEvent' = Noted(lastEvent, t,
                                     Event(IF wellformed THEN "stored" ELSE "malformed",
                                           NoResponse))
               /\ UNCHANGED <<err_count, slept, clean>>
    /\ UNCHANGED <<now, quota, gets, n429, track>>
    /\ UNCHANGED nonFetchVars

\* main.py:172-173: the retry-after sleep ends; continue leaves both blocks
FetchWake429(t) ==
    /\ ~aborted
    /\ pc[t] = "sleep429"
    /\ permits' = permits + 1
    /\ holds' = [holds EXCEPT ![t] = FALSE]
    /\ slept' = [slept EXCEPT ![t] = 0]
    /\ pc' = [pc EXCEPT ![t] = "loop"]
    /\ UNCHANGED <<cacheVars, err_count, result, aborted, histVars>>
    /\ UNCHANGED nonFetchVars

\* main.py:183-184: the backoff sleep ends
FetchWakeBackoff(t) ==
    /\ ~aborted
    /\ pc[t] = "backoff"
    /\ slept' = [slept EXCEPT ![t] = 0]
    /\ pc' = [pc EXCEPT ![t] = "loop"]
    /\ UNCHANGED <<cacheVars, err_count, holds, permits, result, aborted, histVars>>
    /\ UNCHANGED nonFetchVars

----------------------------------------------------------------------------
(***************************************************************************)
(* The pagination walkers (main.py 189-217 and 365-384).  fetch is one     *)
(* step here: it returns a body, which parse_links_page turns into the     *)
(* links, show_end and total of the page, or it ends the walk (SystemExit  *)
(* from fetch, an exception from parse_links_page on a malformed body).    *)
(*                                                                         *)
(* page and links grow without bound in the program.  The model follows    *)
(* them exactly up to PageCap pages; past that, page, links and the        *)
(* histories stand still and only the locals of the last page move.        *)
(***************************************************************************)
\* pages the walker is followed through exactly
PageCap == 3
\* the largest show_end and total the server reports
MaxTotal == 2

Walkers == {"recipe", "item"}

\* main.py:204 and 371: the listing a walker reads
ListingUrl(kind) == IF kind = "recipe" THEN "recipe/" ELSE "item/"

\* what parse_links_page returns for the bodies the server may send
LinkSeqs == {<<>>, <<"a">>, <<"b">>}

LinkPages == [links : LinkSeqs, show_end : 0 .. MaxTotal, total : 0 .. MaxTotal]

NoPage == [links |-> <<>>, show_end |-> 0, total |-> 0]

\* a loop test that asks for one more page when show_end has reached total
MorePagesInclusive(lp) == lp.show_end <= lp.total

\* main.py:213 and 380, if show_end < total
MorePages(lp) == lp.show_end < lp.total

PageRequest(kind, n) == [url |-> ListingUrl(kind), page |-> n]

InitWalkIdle ==
    /\ wkind = "recipe" /\ wpc = "idle" /\ page = 0 /\ links = <<>> /\ last = NoPage
    /\ requested = <<>> /\ served = <<>> /\ overflow = FALSE

\* main.py:208-211: links = [], page = 1 and the first request
WalkStart ==
    /\ wpc = "start"
    /\ links' = <<>>
    /\ page' = 1
    /\ requested' = Append(requested, PageRequest(wkind, 1))
    /\ wpc' = "fetching"
    /\ UNCHANGED <<wkind, last, served, overflow, nonWalkVars>>

\* main.py:211-217: the page arrives and is parsed; the walker asks for the
\* next page or returns links
WalkPage(lp) ==
    /\ wpc = "fetching"
    /\ last' = lp
    /\ IF overflow \/ (MorePages(lp) /\ page = PageCap)
       THEN /\ overflow' = TRUE
            /\ wpc' = IF MorePages(lp) THEN "fetching" ELSE "done"
            /\ UNCHANGED <<page, links, requested, served>>
       ELSE /\ links' = links \o lp.links
            /\ served' = Append(served, lp)
            /\ IF MorePages(lp)
               THEN /\ page' = page + 1
                    /\ requested' = Append(requested, PageRequest(wkind, page + 1))
                    /\ wpc' = "fetching"
               ELSE /\ wpc' = "done"
                    /\ UNCHANGED <<page, requested>>
            /\ UNCHANGED overflow
    /\ UNCHANGED <<wkind, nonWalkVars>>

\* main.py:186 or 193-194: fetch gives up, or the body has no show_end or
\* total to parse: the exception leaves the walker
WalkFail ==
    /\ wpc = "fetching"
    /\ wpc' = "failed"
    /\ UNCHANGED <<wkind, page, links, last, requested, served, overflow, nonWalkVars>>

----------------------------------------------------------------------------
(***************************************************************************)
(* The run (main.py 336-362 and 458-526).  scrape_classes and scrape_buffs *)
(* take the classes and the item categories one after the other: the link  *)
(* walkers of the target run concurrently, then its entity fetches, and    *)
(* once all have returned the collection is sorted, merged and written.    *)
(* A walker or an entity fetch stands for the whole task here: it returns  *)
(* or it raises.  Opening the file, writing it and closing it are one      *)
(* stretch without an await; they are separate steps because SIGINT, whose *)
(* handler is SIG_DFL, ends the process between any two instructions.      *)
(***************************************************************************)
\* classes named on the command line
NumClasses == 2
\* link walkers of a class (main.py:88-89 has 23)
NumWalkers == 2
\* links the walkers of one target bring at most
MaxFound == 2
\* writes json.dump makes to the file
NumChunks == 2
\* main.py:102-105, the item categories of scrape_buffs
NumItemCategories == 2

\* main.py:516-522: --recipes, --buffs or both
RunPlans ==
    {[i \in 1 .. nc + ni |-> IF i <= nc THEN "class" ELSE "item"] :
        nc \in {0, NumClasses}, ni \in {0, NumItemCategories}} \ {<<>>}

\* main.py:222 and 389: a walker per link category of a class, one for an
\* item category
WalkersOf(kind) == IF kind = "class" THEN NumWalkers ELSE 1

Untouched == [st |-> "untouched", n |-> 0]

InitRunIdle ==
    /\ plan = <<>> /\ target = 0 /\ phase = "idle" /\ walkersLeft = 0 /\ found = 0
    /\ entLeft = 0 /\ files = <<>> /\ exit = "idle" /\ started = {}
    /\ okWalks = <<>> /\ okEnts = <<>>

\* the file opened while the fetches of the target still run
ReadyToWriteEarly == phase \in {"links", "entities", "fetched"}

\* main.py:360-361 and 483-484: the file is opened once fetch_class (or
\* fetch_items_category) has returned the collection
ReadyToWrite == phase = "fetched"

\* main.py:347 and 469: fetch_class starts the link walkers of the target
RunStartTarget ==
    /\ exit = "running" /\ phase = "start"
    /\ started' = started \cup {target}
    /\ walkersLeft' = WalkersOf(plan[target])
    /\ found' = 0
    /\ phase' = "links"
    /\ UNCHANGED <<plan, target, entLeft, files, exit, okWalks, okEnts, nonRunVars>>

\* main.py:228-229 and 348: a link walker returns n links; after the last
\* one, fetch_recipes starts a fetch per link (none: the collection is empty)
RunWalkerDone(n) ==
    /\ exit = "running" /\ phase = "links" /\ walkersLeft > 0
    /\ found + n <= MaxFound
    /\ found' = found + n
    /\ walkersLeft' = walkersLeft - 1
    /\ okWalks' = [okWalks EXCEPT ![target] = @ + 1]
    /\ IF walkersLeft = 1
       THEN /\ entLeft' = found + n
            /\ phase' = IF found + n = 0 THEN "fetched" ELSE "entities"
       ELSE UNCHANGED <<entLeft, phase>>
    /\ UNCHANGED <<plan, target, files, exit, started, okEnts, nonRunVars>>

\* main.py:343 and 349-355: an entity fetch returns its record; after the
\* last one the collection is sorted and merged and fetch_class returns
RunEntityDone ==
    /\ exit = "running" /\ phase = "entities" /\ entLeft > 0
    /\ entLeft' = entLeft - 1
    /\ okEnts' = [okEnts EXCEPT ![target] = @ + 1]
    /\ phase' = IF entLeft = 1 THEN "fetched" ELSE "entities"
    /\ UNCHANGED <<plan, target, walkersLeft, found, files, exit, started, okWalks,
                   nonRunVars>>

\* main.py:186, 251, 272: a walker or an entity fetch raises (the retry
\* budget is spent, the page has no identifier, the star count is past the
\* table); the exception leaves run_until_complete and the process ends
RunTaskFatal ==
    /\ exit = "running"
    /\ \/ phase = "links" /\ walkersLeft > 0
       \/ phase = "entities" /\ entLeft > 0
    /\ exit' = "fatal"
    /\ UNCHANGED <<plan, target, phase, walkersLeft, found, entLeft, files, started,
                   okWalks, okEnts, nonRunVars>>

\* main.py:361 and 484: open(..., mode="wt") creates or truncates the file
RunOpenFile ==
    /\ exit = "running" /\ ReadyToWrite
    /\ files' = [files EXCEPT ![target] = [st |-> "open", n |-> 0]]
    /\ phase' = "writing"
    /\ UNCHANGED <<plan, target, walkersLeft, found, entLeft, exit, started, okWalks,
                   okEnts, nonRunVars>>

\* main.py:362 and 485: json.dump writes the next piece of the document
RunWriteChunk ==
    /\ exit = "running" /\ phase = "writing"
    /\ files[target].n < NumChunks
    /\ files' = [files EXCEPT ![target].n = @ + 1]
    /\ UNCHANGED <<plan, target, phase, walkersLeft, found, entLeft, exit, started,
                   okWalks, okEnts, nonRunVars>>

\* main.py:361-362: the with block ends, the file is flushed and closed; the
\* loop goes to the next class or category, or the run is over
RunCloseFile ==
    /\ exit = "running" /\ phase = "writing"
    /\ files[target].n = NumChunks
    /\ files' = [files EXCEPT ![target].st = "complete"]
    /\ IF target < Len(plan)
       THEN /\ target' = target + 1
            /\ phase' = "start"
            /\ UNCHANGED exit
       ELSE /\ exit' = "finished"
            /\ phase' = "over"
            /\ UNCHANGED target
    /\ UNCHANGED <<plan, walkersLeft, found, entLeft, started, okWalks, okEnts,
                   nonRunVars>>

\* main.py:22: SIGINT has its default disposition and ends the process
RunSigint ==
    /\ exit = "running"
    /\ exit' = "killed"
    /\ UNCHANGED <<plan, target, phase, walkersLeft, found, entLeft, files, started,
                   okWalks, okEnts, nonRunVars>>

----------------------------------------------------------------------------
(***************************************************************************)
(* fetch_recipe (main.py 255-333), after the pages of the recipe have been *)
(* fetched and parsed: the level, the characteristics and the record.  A   *)
(* Python dict is a function on its keys, None is some = FALSE.            *)
(***************************************************************************)
\* the largest base level a recipe page shows (the table ends at 80)
MaxBaseLevel == 81
\* the largest number of star markers a recipe page shows
MaxStars == 5

\* main.py:29-34
LANG_HOSTS == {"en", "ja", "fr", "de"}

\* main.py:48-82
LEVEL_DIFF ==
    [b \in 50 .. 80 |->
        CASE b = 50 -> <<0, 5, 20, 40, 60>>
          [] b = 51 -> <<69>>
          [] b = 52 -> <<73>>
          [] b = 53 -> <<77>>
          [] b = 54 -> <<79>>
          [] b = 55 -> <<81>>
          [] b = 56 -> <<83>>
          [] b = 57 -> <<85>>
          [] b = 58 -> <<87>>
          [] b = 59 -> <<89>>
          [] b = 60 -> <<90, 100, 120, 150, 190>>
          [] b = 61 -> <<199>>
          [] b = 62 -> <<203>>
          [] b = 63 -> <<207>>
          [] b = 64 -> <<209>>
          [] b = 65 -> <<211>>
          [] b = 66 -> <<213>>
          [] b = 67 -> <<215>>
          [] b = 68 -> <<217>>
          [] b = 69 -> <<219>>
          [] b = 70 -> <<220, 230, 250, 280, 310>>
          [] b = 71 -> <<319>>
          [] b = 72 -> <<323>>
          [] b = 73 -> <<327>>
          [] b = 74 -> <<329>>
          [] b = 75 -> <<331>>
          [] b = 76 -> <<333>>
          [] b = 77 -> <<335>>
          [] b = 78 -> <<337>>
          [] b = 79 -> <<339>>
          [] b = 80 -> <<350, 360, 370, 400, 430>>]

\* main.py:277, the difficulties a page shows: those of lines 284-287 and
\* an ordinary one
Difficulties == {100, 169, 339, 558, 1116, 1764}

\* a stripped line of the characteristics block, as <<head, rest>>: the text
\* up to and with ": ", and what follows it
CharacteristicLines == {<<"Aspect: ", "Lightning">>, <<"Quick Synthesis Unavailable", "">>}
    \cup {<<h, r>> : h \in {"Craftsmanship Recommended: ", "Control Required: "},
                     r \in {"0", "3"}}

\* main.py:295, the characteristics blocks of the pages drawn: up to two lines
CharacteristicBlocks ==
    {<<>>} \cup {<<a>> : a \in CharacteristicLines}
           \cup {<<a, b>> : a, b \in CharacteristicLines}

\* main.py:260 and 331: the identifier and the names the pages carry
PageNames ==
    [l \in LANG_HOSTS |->
        CASE l = "en" -> "Bronze Ingot" [] l = "ja" -> "Buronzu Ingotto"
          [] l = "fr" -> "Lingot de bronze" [] l = "de" -> "Bronzebarren"]

RecipePages ==
    [id : {"0a1b"}, base : 1 .. MaxBaseLevel, stars : 0 .. MaxStars,
     difficulty : Difficulties, durability : {40}, max_quality : {866},
     lines : CharacteristicBlocks, names : {PageNames}]

NoRecipePage ==
    [id |-> "", base |-> 0, stars |-> 0, difficulty |-> 0, durability |-> 0,
     max_quality |-> 0, lines |-> <<>>, names |-> PageNames]

NoRecord == [id |-> ""]

NoOutcome == [st |-> "none", rec |-> NoRecord]

InitRecipeIdle == rpage = NoRecipePage /\ rout = NoOutcome

\* a star count past the table takes the last offset of the row
LevelAdjustmentClamped(b, s) ==
    IF b \notin DOMAIN LEVEL_DIFF THEN [ok |-> TRUE, val |-> 0]
    ELSE [ok |-> TRUE,
          val |-> LEVEL_DIFF[b][IF s < Len(LEVEL_DIFF[b]) THEN s + 1 ELSE Len(LEVEL_DIFF[b])]]

\* main.py:265-272: the offset of the table, 0 for a base level that is not
\* in it; ok = FALSE when the index raises IndexError
LevelAdjustment(b, s) ==
    IF b \notin DOMAIN LEVEL_DIFF THEN [ok |-> TRUE, val |-> 0]
    ELSE IF s < Len(LEVEL_DIFF[b]) THEN [ok |-> TRUE, val |-> LEVEL_DIFF[b][s + 1]]
    ELSE [ok |-> FALSE, val |-> 0]

\* main.py:264-267: stars stays None unless the base level is in the table
StarsCounted(b) == b \in DOMAIN LEVEL_DIFF

\* the -5 rule taken on the difficulty alone
MinusFiveAnyLevel(b, d) == d \in {169, 339, 1116, 558}

\* main.py:284-285
MinusFive(b, d) == (b = 51 /\ (d = 169 \/ d = 339)) \/ (b = 61 /\ (d = 1116 \/ d = 558))

\* the +10 rule without its star count
PlusTenAnyStars(b, s, d) == b = 60 /\ d = 1764

\* main.py:287, with stars = None when they were not counted
PlusTen(b, s, d) == b = 60 /\ StarsCounted(b) /\ s = 3 /\ d = 1764

\* main.py:274 and 284-288
Level(b, s, d) ==
    b + LevelAdjustment(b, s).val - (IF MinusFive(b, d) THEN 5 ELSE 0)
      + (IF PlusTen(b, s, d) THEN 10 ELSE 0)

None == [some |-> FALSE, val |-> 0]

NoneStr == [some |-> FALSE, val |-> ""]

Some(v) == [some |-> TRUE, val |-> v]

\* main.py:92 and 297: ASPECT_RE.match, "Aspect: (.+)"
AspectMatch(line) == line[1] = "Aspect: " /\ line[2] # ""

\* main.py:93-94 and 300-303: "<name> (?:Required|Recommended): ([0-9]+)"
NumberMatch(name, line) ==
    /\ line[1] \in {name \o " Required: ", name \o " Recommended: "}
    /\ IsInt(line[2])

\* main.py:290-305: the loop over the lines; a later match replaces an earlier
RECURSIVE Characteristics(_, _)
Characteristics(lines, acc) ==
    IF lines = <<>> THEN acc
    ELSE LET line == Head(lines)
             a == IF AspectMatch(line) THEN Some(line[2]) ELSE acc.aspect
             c == IF NumberMatch("Craftsmanship", line) THEN Some(IntOf(line[2]))
                  ELSE acc.craftsmanship
             k == IF NumberMatch("Control", line) THEN Some(IntOf(line[2]))
                  ELSE acc.control
         IN Characteristics(Tail(lines), [aspect |-> a, craftsmanship |-> c, control |-> k])

NoCharacteristics == [aspect |-> NoneStr, craftsmanship |-> None, control |-> None]

\* main.py:317-327: "if x:" of Python, false for None, for 0 and for ""
Truthy(x) == x.some /\ x.val # 0

TruthyStr(x) == x.some /\ x.val # ""

\* an optional key of the record
Optional(present, key, value) == IF present THEN key :> value ELSE <<>>

\* main.py:307-333: the record
RecipeRecord(p) ==
    LET ch == Characteristics(p.lines, NoCharacteristics)
    IN [id |-> p.id, name |-> p.names, baseLevel |-> p.base,
        level |-> Level(p.base, p.stars, p.difficulty), difficulty |-> p.difficulty,
        durability |-> p.durability, maxQuality |-> p.max_quality]
       @@ Optional(StarsCounted(p.base) /\ p.stars # 0, "stars", p.stars)
       @@ Optional(TruthyStr(ch.aspect), "aspect", ch.aspect.val)
       @@ Optional(Truthy(ch.craftsmanship), "suggestedCraftsmanship", ch.craftsmanship.val)
       @@ Optional(Truthy(ch.control), "suggestedControl", ch.control.val)

\* fetch_recipe on the parsed pages: the record, or SystemExit
FetchRecipeOf(p) ==
    IF LevelAdjustment(p.base, p.stars).ok
    THEN [st |-> "returned", rec |-> RecipeRecord(p)]
    ELSE [st |-> "fatal", rec |-> NoRecord]

\* main.py:255-333
FetchRecipe ==
    /\ rout.st = "none"
    /\ rpage # NoRecipePage
    /\ rout' = FetchRecipeOf(rpage)
    /\ UNCHANGED <<rpage, nonRecipeVars>>

----------------------------------------------------------------------------
(***************************************************************************)
(* fetch_item and extract_item_attr (main.py 401-455), after the pages of  *)
(* the item have been fetched and parsed.  The text of a quality block is  *)
(* the sequence of its bonus lines: "<name> +<percent>% (Max <max>)", or   *)
(* the flat form "<name> +<max>" that no pattern matches.                  *)
(***************************************************************************)
Bonus(name, form, percent, max) ==
    [name |-> name, form |-> form, percent |-> percent, max |-> max]

\* the bonus lines of the blocks drawn
BonusLines ==
    {Bonus("Craftsmanship", "percent", 4, 30), Bonus("Craftsmanship", "percent", 5, 40),
     Bonus("Control", "percent", 4, 30), Bonus("CP", "percent", 4, 30),
     Bonus("Vitality", "percent", 4, 30), Bonus("Control", "flat", 0, 5)}

\* main.py:442-443, the quality blocks drawn: up to two lines
QualityBlocks ==
    {<<>>} \cup {<<a>> : a \in BonusLines} \cup {<<a, b>> : a, b \in BonusLines}

\* main.py:452: the text nodes of the name heading of each page, none on a
\* page without the heading
PageHeadings ==
    {[l \in LANG_HOSTS |-> <<PageNames[l]>>],
     [l \in LANG_HOSTS |-> IF l = "ja" THEN <<>> ELSE <<PageNames[l]>>]}

ItemPages == [id : {"0a1b"}, nq : QualityBlocks, hq : QualityBlocks, h2 : PageHeadings]

NoItemPage == [id |-> "", nq |-> <<>>, hq |-> <<>>, h2 |-> [l \in LANG_HOSTS |-> <<>>]]

NoItems == [st |-> "none", recs |-> <<>>]

InitItemIdle == ipage = NoItemPage /\ iout = NoItems

\* main.py:95-97: the name each of the three patterns starts with, by the
\* key its groups are stored under
ITEM_RE == [craftsmanship |-> "Craftsmanship", control |-> "Control", cp |-> "CP"]

\* main.py:95-97: "<name> \+([0-9]+)% \(Max ([0-9]+)\)"
BonusMatch(key, line) == line.name = ITEM_RE[key] /\ line.form = "percent"

\* main.py:404-407 (409-412, 414-417): finditer of one pattern over the text;
\* every match stores its two groups, a later match over an earlier
RECURSIVE StoreMatches(_, _, _)
StoreMatches(key, text, item) ==
    IF text = <<>> THEN item
    ELSE StoreMatches(key, Tail(text),
             IF BonusMatch(key, Head(text))
             THEN ((key \o "_percent") :> Head(text).percent)
                  @@ ((key \o "_value") :> Head(text).max) @@ item
             ELSE item)

\* main.py:401-419: extract_item_attr, the item it leaves and found_attr
ExtractItemAttr(text, item) ==
    [item |-> StoreMatches("cp", text,
                  StoreMatches("control", text, StoreMatches("craftsmanship", text, item))),
     found |-> \E i \in 1 .. Len(text) : \E key \in DOMAIN ITEM_RE : BonusMatch(key, text[i])]

\* an item dropped when either block is without an attribute
DiscardedEither(has_nq_attr, has_hq_attr) == ~has_nq_attr \/ ~has_hq_attr

\* main.py:447
Discarded(has_nq_attr, has_hq_attr) == ~has_nq_attr /\ ~has_hq_attr

\* main.py:422-455: fetch_item on the parsed pages; the IndexError of a page
\* without a name heading leaves fetch_item
FetchItemOf(p) ==
    LET nq == ExtractItemAttr(p.nq, [id |-> p.id, name |-> <<>>, hq |-> FALSE])
        hq == ExtractItemAttr(p.hq, [id |-> p.id, name |-> <<>>, hq |-> TRUE])
        names == [l \in LANG_HOSTS |-> Head(p.h2[l])]
    IN IF Discarded(nq.found, hq.found) THEN [st |-> "returned", recs |-> <<>>]
       ELSE IF \E l \in LANG_HOSTS : p.h2[l] = <<>> THEN [st |-> "raised", recs |-> <<>>]
       ELSE [st |-> "returned",
             recs |-> <<[nq.item EXCEPT !.name = names], [hq.item EXCEPT !.name = names]>>]

\* main.py:422-455
FetchItem ==
    /\ iout.st = "none"
    /\ ipage # NoItemPage
    /\ iout' = FetchItemOf(ipage)
    /\ UNCHANGED <<ipage, nonItemVars>>

----------------------------------------------------------------------------
(***************************************************************************)
(* The name-override merge (main.py 350-354 and 472-476, add_other_lang.py *)
(* 27-31).  additional_languages is a dict of dicts: the sequence of its   *)
(* <<locale, mapping>> items in insertion order, a mapping being a         *)
(* function on the English names it has an entry for.                      *)
(***************************************************************************)
\* entities of the collections drawn
MaxEntities == 2
\* merges applied to a collection (the scrape, then add_other_lang.py)
MaxMerges == 2

EnglishNames == {"Bronze Ingot", "Iron Ingot"}

\* the names an override file maps to
OverrideValues == {"", "Iron Ingot", "Cheongdong"}

\* main.py:491, json.load of an override file
Mappings == UNION {[D -> OverrideValues] : D \in SUBSET EnglishNames}

\* main.py:489: the locales named on the command line, a scraped one
\* ("ja"), "en" itself and one the site does not have ("ko")
OverrideLocales == {"en", "ja", "ko"}

\* main.py:486-493: load_additional_languages, for up to two locales
Overrides ==
    {<<>>} \cup {<<<<l, m>>>> : l \in OverrideLocales, m \in Mappings}
           \cup {<<<<l, m>>, <<k, n>>>> :
                    <<l, k>> \in {lk \in OverrideLocales \X OverrideLocales : lk[1] # lk[2]},
                    m \in Mappings, n \in Mappings}

\* main.py:329-331: the name map fetch_recipe builds from the pages
ScrapedNames(english) ==
    [l \in LANG_HOSTS |-> IF l = "en" THEN english ELSE l \o ": " \o english]

RECURSIVE NameMapsOfLen(_)
NameMapsOfLen(n) ==
    IF n = 0 THEN {<<>>}
    ELSE {Append(c, ScrapedNames(e)) : c \in NameMapsOfLen(n - 1), e \in EnglishNames}

Collections == UNION {NameMapsOfLen(n) : n \in 0 .. MaxEntities}

InitMergeIdle ==
    mover = <<>> /\ mnames = <<>> /\ mbefore = <<>> /\ mfirst = <<>> /\ mcount = 0

\* main.py:354, names.get(english_name) or english_name
Override(names, english_name) ==
    IF english_name \in DOMAIN names /\ names[english_name] # ""
    THEN names[english_name]
    ELSE english_name

\* main.py:351-354: the loop over the locales; english_name is read anew for
\* each locale
RECURSIVE MergeNames(_, _)
MergeNames(name, over) ==
    IF over = <<>> THEN name
    ELSE LET lang == Head(over)[1]
             names == Head(over)[2]
         IN MergeNames((lang :> Override(names, name["en"])) @@ name, Tail(over))

\* main.py:350-354: the loop over the collection
MergeAll(collection, over) ==
    [i \in 1 .. Len(collection) |-> MergeNames(collection[i], over)]

\* the merge, applied to the collection in memory or to the one read back
Merge ==
    /\ mcount < MaxMerges
    /\ mbefore' = mnames
    /\ mnames' = MergeAll(mnames, mover)
    /\ mfirst' = IF mcount = 0 THEN MergeAll(mnames, mover) ELSE mfirst
    /\ mcount' = mcount + 1
    /\ UNCHANGED <<mover, nonMergeVars>>

----------------------------------------------------------------------------
(***************************************************************************)
(* fetch_class (main.py 220-231 and 336-355): the walkers of the link      *)
(* categories return in any order and their links are appended to one      *)
(* list; a fetch_recipe per place of the list returns, in any order, its   *)
(* record; the records are sorted and merged.  A walker and a fetch_recipe *)
(* stand for the whole task here.                                          *)
(***************************************************************************)
\* main.py:88-89, RECIPE_LINK_CATEGORIES: a level range and an additional
\* category (the program has 16 and 7)
LinkCategories == {"0", "c1"}

\* the relative links the listings hold
RelLinks == {"/recipe/r1/", "/recipe/r2/", "/recipe/r3/", "/recipe/r4/"}

\* main.py:191-192: the links of a listing, in page order, up to two
Listings ==
    {<<>>} \cup {<<a>> : a \in RelLinks} \cup {<<a, b>> : a, b \in RelLinks}

\* the parsed pages behind a link, one recipe per link: r1, r3 and r4 have
\* the same level, r1 and r4 the same English name too
PagesOf(link) ==
    LET p == CASE link = "/recipe/r1/" -> <<"0a1b", 50, 2, "Iron Ingot">>
               [] link = "/recipe/r2/" -> <<"2c3d", 70, 0, "Bronze Ingot">>
               [] link = "/recipe/r3/" -> <<"4e5f", 50, 2, "Bronze Ingot">>
               [] link = "/recipe/r4/" -> <<"6a7b", 50, 2, "Iron Ingot">>
    IN [id |-> p[1], base |-> p[2], stars |-> p[3], difficulty |-> 100, durability |-> 40,
        max_quality |-> 866, lines |-> <<>>, names |-> ScrapedNames(p[4])]

\* the overrides of the runs drawn: none, a file for a locale the site does
\* not have, or a file for "en"
ClassOverrides ==
    {<<>>, <<<<"ko", [e \in {"Iron Ingot"} |-> "Cheongdong"]>>>>,
     <<<<"en", [e \in {"Bronze Ingot"} |-> "Tin Ingot"]>>>>}

InitClassIdle ==
    /\ cphase = "idle" /\ cpending = {} /\ clisted = <<>> /\ clinks = <<>>
    /\ ctodo = {} /\ crecipes = <<>>

\* the order of str on the English names of the pages and of the overrides
EnglishRank(n) ==
    CASE n = "Bronze Ingot" -> 1 [] n = "Cheongdong" -> 2 [] n = "Iron Ingot" -> 3
      [] n = "Tin Ingot" -> 4

\* main.py:349, the sort key (r['level'], r['name']['en'])
KeyLess(a, b) ==
    \/ a.level < b.level
    \/ a.level = b.level /\ EnglishRank(a.name["en"]) < EnglishRank(b.name["en"])

\* list.sort is stable: a record goes behind those that are not greater
RECURSIVE Insert(_, _)
Insert(r, sorted) ==
    IF sorted = <<>> THEN <<r>>
    ELSE IF KeyLess(r, Head(sorted)) THEN <<r>> \o sorted
    ELSE <<Head(sorted)>> \o Insert(r, Tail(sorted))

RECURSIVE SortRecipes(_)
SortRecipes(recipes) ==
    IF recipes = <<>> THEN <<>>
    ELSE Insert(recipes[Len(recipes)], SortRecipes(SubSeq(recipes, 1, Len(recipes) - 1)))

\* main.py:349-355: the sort and the merge that end fetch_class
Assemble(recipes) ==
    LET sorted == SortRecipes(recipes)
    IN [i \in 1 .. Len(sorted) |->
           [sorted[i] EXCEPT !.name = MergeNames(sorted[i].name, mover)]]

\* main.py:228-229: the walker of category c returns and its links are
\* appended; after the last one fetch_recipes starts a fetch_recipe per
\* place of links (with no link at all, fetch_class returns at once)
ClassWalkerDone(c) ==
    /\ cphase = "links" /\ c \in cpending
    /\ cpending' = cpending \ {c}
    /\ clinks' = clinks \o clisted[c]
    /\ IF cpending = {c}
       THEN /\ ctodo' = 1 .. Len(clinks \o clisted[c])
            /\ cphase' = IF clinks \o clisted[c] = <<>> THEN "done" ELSE "recipes"
       ELSE UNCHANGED <<ctodo, cphase>>
    /\ UNCHANGED <<clisted, crecipes, nonClassVars>>

\* main.py:343 and 349-355: the fetch_recipe of place i returns its record;
\* after the last one the collection is sorted, merged and returned
ClassRecipeDone(i) ==
    /\ cphase = "recipes" /\ i \in ctodo
    /\ ctodo' = ctodo \ {i}
    /\ LET collected == Append(crecipes, FetchRecipeOf(PagesOf(clinks[i])).rec)
       IN IF ctodo = {i}
          THEN crecipes' = Assemble(collected) /\ cphase' = "done"
          ELSE crecipes' = collected /\ UNCHANGED cphase
    /\ UNCHANGED <<cpending, clisted, clinks, nonClassVars>>

----------------------------------------------------------------------------
(***************************************************************************)
(* A single fetch against every server behaviour (SpecFetch) and a pool of *)
(* concurrent fetches behind the semaphore (SpecPool).                     *)
(***************************************************************************)
----------------------------------------------------------------------------
(***************************************************************************)
(* The fetch primitives of buffs.py and food.py: fetch_item_links_page and *)
(* fetch_page (buffs.py 33-52, 66-76) and fetch_food_page (food.py 53-63). *)
(* Each is the same loop: while True, a request under FETCH_SEMAPHORE, the *)
(* body parsed, break; every exception is swallowed by "except: pass" and  *)
(* the loop goes round.  The status of the response is not looked at.      *)
(***************************************************************************)
BuffPrimitives == {"fetch_item_links_page", "fetch_page", "fetch_food_page"}

\* the count of requests stands still here; the loop itself has no count
MaxAttempts == 6

NoData == <<"nodata">>

\* json.loads (and the keys parse_item_links_page reads) of a body that parses
DataOf(prim) == <<"data", prim>>

InitBuffIdle ==
    /\ bprim = "none" /\ bpc = "idle" /\ bholds = FALSE /\ bdata = NoData
    /\ blast = "none" /\ battempts = 0

\* an exception inside the blocks: the permit goes back, pass, and the loop
\* goes round at once
BuffRetry(how) ==
    /\ bholds' = FALSE
    /\ blast' = how
    /\ bpc' = "loop"
    /\ UNCHANGED <<bprim, bdata, battempts>>

\* while True: the semaphore is taken and session.get issues the request
BuffGet ==
    /\ bpc = "loop"
    /\ bpc' = "inflight"
    /\ bholds' = TRUE
    /\ battempts' = IF battempts < MaxAttempts THEN battempts + 1 ELSE battempts
    /\ UNCHANGED <<bprim, bdata, blast, nonBuffVars>>

\* session.get ends: it raises, or a response of any status is there
BuffRespond(raised) ==
    /\ bpc = "inflight"
    /\ IF raised
       THEN BuffRetry("raised")
       ELSE /\ bpc' = "reading"
            /\ UNCHANGED <<bprim, bholds, bdata, blast, battempts>>
    /\ UNCHANGED nonBuffVars

\* res.text() and the parse end: the read raises, the body does not parse,
\* or data is set and break leaves the loop
BuffRead(outcome) ==
    /\ bpc = "reading"
    /\ IF outcome = "parsed"
       THEN /\ bdata' = DataOf(bprim)
            /\ bholds' = FALSE
            /\ blast' = outcome
            /\ bpc' = "returned"
            /\ UNCHANGED <<bprim, battempts>>
       ELSE BuffRetry(outcome)
    /\ UNCHANGED nonBuffVars

\* the variables of a specification that fetches no recipe, no item, merges
\* nothing, assembles no class and runs no primitive of buffs.py or food.py
InitEntityIdle ==
    InitRecipeIdle /\ InitItemIdle /\ InitMergeIdle /\ InitClassIdle /\ InitBuffIdle

CacheStates ==
    {NoEntry, Entry(<<"old", 0>>, 0), Entry(<<"old", 0>>, 1), Entry(Undecodable, 0),
     Entry(Undecodable, 1), Entry(Malformed, 1)}

\* the clock of the fetch specifications: an entry of mtime 0 has expired, one
\* of mtime 1 has not
FetchClock == CACHE_EXPIRY + 1

InitTasks(active, q, tr) ==
    /\ track = tr
    /\ now = FetchClock
    /\ cache \in [Tasks -> CacheStates]
    /\ \A t \in Tasks \ active : cache[t] = NoEntry
    /\ pc = [t \in Tasks |-> IF t \in active THEN "start" ELSE "idle"]
    /\ err_count = [t \in Tasks |-> 0]
    /\ holds = [t \in Tasks |-> FALSE]
    /\ permits = Concurrency
    /\ result = [t \in Tasks |-> <<>>]
    /\ slept = [t \in Tasks |-> 0]
    /\ aborted = FALSE
    /\ quota = q
    /\ gets = [t \in Tasks |-> 0]
    /\ n429 = [t \in Tasks |-> 0]
    /\ clean = [t \in Tasks |-> TRUE]
    /\ lastEvent = [t \in Tasks |-> Event("none", NoResponse)]
    /\ InitKeyIdle
    /\ InitLookupIdle
    /\ InitWalkIdle
    /\ InitRunIdle
    /\ InitEntityIdle

InitFetch == InitTasks({1}, Max429, TRUE)

InitPool == InitTasks(Tasks, MaxPool429, FALSE)

NextFetch ==
    \E t \in Tasks :
        \/ \E raced \in BOOLEAN : FetchStart(t, raced)
        \/ FetchGet(t)
        \/ FetchGiveUp(t)
        \/ \E res \in Responses : FetchRespond(t, res)
        \/ \E read, stored, wellformed \in BOOLEAN : FetchRead(t, read, stored, wellformed)
        \/ FetchWake429(t)
        \/ FetchWakeBackoff(t)

vars == <<programVars, entityVars>>

SpecFetch == InitFetch /\ [][NextFetch]_vars

SpecPool == InitPool /\ [][NextFetch]_vars

\* the fetch variables of a specification that runs no fetch
InitTasksIdle ==
    /\ track = FALSE
    /\ pc = [t \in Tasks |-> "idle"]
    /\ err_count = [t \in Tasks |-> 0]
    /\ holds = [t \in Tasks |-> FALSE]
    /\ permits = Concurrency
    /\ result = [t \in Tasks |-> <<>>]
    /\ slept = [t \in Tasks |-> 0]
    /\ aborted = FALSE
    /\ quota = 0
    /\ gets = [t \in Tasks |-> 0]
    /\ n429 = [t \in Tasks |-> 0]
    /\ clean = [t \in Tasks |-> TRUE]
    /\ lastEvent = [t \in Tasks |-> Event("none", NoResponse)]

InitCacheIdle == now = FetchClock /\ cache = [t \in Tasks |-> NoEntry]

InitKey ==
    /\ InitTasksIdle /\ InitCacheIdle /\ InitLookupIdle /\ InitWalkIdle /\ InitRunIdle
    /\ InitEntityIdle
    /\ kkeys = <<>> /\ kreq \in RequestPairs

NextKey == KeyFirst \/ KeySecond

SpecKey == InitKey /\ [][NextKey]_vars

\* the cache file of one request, written and looked up as time passes
InitCache ==
    /\ InitTasksIdle /\ InitKeyIdle /\ InitLookupIdle /\ InitWalkIdle /\ InitRunIdle
    /\ InitEntityIdle
    /\ now = 0
    /\ cache = [t \in Tasks |-> NoEntry]

NextCache ==
    \/ \E d \in ClockSteps : Tick(d)
    \/ CacheStore(1)
    \/ CacheLookup(1)

SpecCache == InitCache /\ [][NextCache]_vars

\* one walk of one listing, against every sequence of pages
InitWalk ==
    /\ InitTasksIdle /\ InitCacheIdle /\ InitKeyIdle /\ InitLookupIdle /\ InitRunIdle
    /\ InitEntityIdle
    /\ wkind \in Walkers /\ wpc = "start" /\ page = 0 /\ links = <<>> /\ last = NoPage
    /\ requested = <<>> /\ served = <<>> /\ overflow = FALSE

NextWalk ==
    \/ WalkStart
    \/ \E lp \in LinkPages : WalkPage(lp)
    \/ WalkFail

SpecWalk == InitWalk /\ [][NextWalk]_vars

\* the event loop goes on running the walker while the server answers
FairWalk == SpecWalk /\ WF_vars(NextWalk)

\* a run of the scraper over its classes and item categories
InitRun ==
    /\ InitTasksIdle /\ InitCacheIdle /\ InitKeyIdle /\ InitLookupIdle /\ InitWalkIdle
    /\ InitEntityIdle
    /\ plan \in RunPlans
    /\ target = 1 /\ phase = "start" /\ walkersLeft = 0 /\ found = 0 /\ entLeft = 0
    /\ files = [i \in 1 .. Len(plan) |-> Untouched]
    /\ exit = "running" /\ started = {}
    /\ okWalks = [i \in 1 .. Len(plan) |-> 0]
    /\ okEnts = [i \in 1 .. Len(plan) |-> 0]

NextRun ==
    \/ RunStartTarget
    \/ \E n \in 0 .. MaxFound : RunWalkerDone(n)
    \/ RunEntityDone
    \/ RunTaskFatal
    \/ RunOpenFile
    \/ RunWriteChunk
    \/ RunCloseFile
    \/ RunSigint

SpecRun == InitRun /\ [][NextRun]_vars

\* the event loop runs every task that can run: a sleep ends, an answer
\* arrives, a task that can go on does
FairFetch == SpecFetch /\ WF_vars(NextFetch)

\* the program variables of a specification of one pure function
InitProgramIdle ==
    /\ InitTasksIdle /\ InitCacheIdle /\ InitKeyIdle /\ InitLookupIdle /\ InitWalkIdle
    /\ InitRunIdle

\* fetch_recipe on every recipe page drawn
InitRecipe ==
    /\ InitProgramIdle /\ InitItemIdle /\ InitMergeIdle /\ InitClassIdle /\ InitBuffIdle
    /\ rpage \in RecipePages /\ rout = NoOutcome

NextRecipe == FetchRecipe

SpecRecipe == InitRecipe /\ [][NextRecipe]_vars

\* fetch_item on every item page drawn
InitItem ==
    /\ InitProgramIdle /\ InitRecipeIdle /\ InitMergeIdle /\ InitClassIdle /\ InitBuffIdle
    /\ ipage \in ItemPages /\ iout = NoItems

NextItem == FetchItem

SpecItem == InitItem /\ [][NextItem]_vars

\* the merge, once and again, on every collection and every override drawn
InitMerge ==
    /\ InitProgramIdle /\ InitRecipeIdle /\ InitItemIdle /\ InitClassIdle /\ InitBuffIdle
    /\ mover \in Overrides /\ mnames \in Collections
    /\ mbefore = <<>> /\ mfirst = <<>> /\ mcount = 0

NextMerge == Merge

SpecMerge == InitMerge /\ [][NextMerge]_vars

\* fetch_class over every pair of listings drawn
InitClass ==
    /\ InitProgramIdle /\ InitRecipeIdle /\ InitItemIdle /\ InitBuffIdle
    /\ mover \in ClassOverrides /\ mnames = <<>> /\ mbefore = <<>> /\ mfirst = <<>>
    /\ mcount = 0
    /\ cphase = "links" /\ cpending = LinkCategories
    /\ clisted \in [LinkCategories -> Listings]
    /\ clinks = <<>> /\ ctodo = {} /\ crecipes = <<>>

NextClass ==
    \/ \E c \in LinkCategories : ClassWalkerDone(c)
    \/ \E i \in 1 .. (2 * Cardinality(LinkCategories)) : ClassRecipeDone(i)

SpecClass == InitClass /\ [][NextClass]_vars

\* each primitive of buffs.py and food.py, called once
InitBuffs ==
    /\ InitProgramIdle /\ InitRecipeIdle /\ InitItemIdle /\ InitMergeIdle /\ InitClassIdle
    /\ bprim \in BuffPrimitives /\ bpc = "loop" /\ bholds = FALSE /\ bdata = NoData
    /\ blast = "none" /\ battempts = 0

NextBuffs ==
    \/ BuffGet
    \/ \E raised \in BOOLEAN : BuffRespond(raised)
    \/ \E outcome \in {"readfail", "unparseable", "parsed"} : BuffRead(outcome)

SpecBuffs == InitBuffs /\ [][NextBuffs]_vars

\* the event loop resumes the task whenever the request or the read it
\* awaits has ended
FairBuffs == SpecBuffs /\ WF_vars(NextBuffs)

----------------------------------------------------------------------------
(***************************************************************************)
(* Properties.                                                             *)
(***************************************************************************)
InFlight == {t \in Tasks : pc[t] \in {"inflight", "reading"}}

\* C1: after f transient failures and then a 200, fetch returns the body of
\* the 200 when f <= 4; with f >= 5 it raises SystemExit and issues no sixth
\* request.  A 200 is only ever received with fewer than five failures
\* counted, its body once read and stored is what fetch returns, five counted
\* failures leave only the fatal exit, and at most five requests are issued
\* beyond those answered 429.
C1_RetryBudget ==
    \A t \in Tasks :
        /\ pc[t] \in {"inflight", "reading", "sleep429"} => err_count[t] < MaxTries
        /\ lastEvent[t].kind = "stored" =>
               pc[t] = "returned" /\ result[t] = BodyOf(t) /\ err_count[t] <= MaxTries - 1
        /\ lastEvent[t].kind = "malformed" => pc[t] = "returned" /\ result[t] = Malformed
        /\ (pc[t] = "returned" /\ lastEvent[t].kind # "hit") =>
               lastEvent[t].kind \in {"stored", "malformed"}
        /\ (clean[t] /\ ~aborted /\ pc[t] = "reading") =>
               ENABLED FetchRead(t, TRUE, TRUE, TRUE)
        /\ (pc[t] = "loop" /\ ~aborted /\ err_count[t] >= MaxTries) =>
               ENABLED FetchGiveUp(t) /\ ~ENABLED FetchGet(t)
        /\ pc[t] = "fatal" => err_count[t] = MaxTries /\ aborted
        /\ gets[t] - n429[t] <= MaxTries
        /\ clean[t] => gets[t] - n429[t] \in {err_count[t], err_count[t] + 1}

\* four transient failures, then a 200 whose body fetch returns
C1_Witness ==
    \E t \in Tasks :
        /\ pc[t] = "returned" /\ result[t] = BodyOf(t)
        /\ clean[t] /\ err_count[t] = 4 /\ gets[t] = 5 /\ n429[t] = 0

\* C2: k 429 answers with an integer retry-after header, then a 200: the
\* failure counter is as it was and fetch returns the body; 429 answers never
\* bring the fatal exit, which takes five failures that are not 429s.  As a
\* step property (such a 429 leaves err_count alone and the task sleeps the
\* time the header names), an invariant (with only transient failures and such
\* 429s, the fatal exit has seen five requests fail that were not answered
\* 429) and a liveness property (fetch returns unless some failure is counted
\* or the cache lookup that opens it raises).
C2_RateLimitNotCounted ==
    /\ [][\A t \in Tasks :
            (pc[t] = "inflight" /\ pc'[t] # "inflight"
             /\ IntegerRetryAfter(lastEvent'[t].res)) =>
                /\ err_count'[t] = err_count[t]
                /\ pc'[t] = "sleep429"
                /\ slept'[t] = IntOf(HeaderValue(lastEvent'[t].res.headers, "retry-after"))]_vars
    /\ [](\A t \in Tasks :
            (clean[t] /\ pc[t] = "fatal") => gets[t] - n429[t] = MaxTries)
    /\ [](\A t \in Tasks :
            (clean[t] /\ pc[t] = "returned" /\ lastEvent[t].kind = "stored") =>
                err_count[t] = gets[t] - n429[t] - 1)
    /\ <>(pc[1] \in {"returned", "crashed"} \/ err_count[1] > 0)

\* ten 429 answers, no failure, and fetch has returned the body
C2_Witness ==
    /\ pc[1] = "returned" /\ result[1] = BodyOf(1)
    /\ n429[1] = Max429 /\ err_count[1] = 0 /\ clean[1]

\* C3: a 429 without a retry-after header, or with one that is no integer,
\* makes fetch sleep 5 and retry without counting a failure.
C3_DefaultRetryAfter ==
    [][\A t \in Tasks :
        (pc[t] = "inflight" /\ pc'[t] # "inflight"
         /\ IsRateLimit(lastEvent'[t].res) /\ ~IntegerRetryAfter(lastEvent'[t].res)) =>
            /\ slept'[t] = 5
            /\ pc'[t] \in {"sleep429", "backoff"}
            /\ err_count'[t] = err_count[t]]_vars

\* C4: at most Concurrency requests are in flight, and a request in flight
\* holds a permit of FETCH_SEMAPHORE; the permits out and the permits left
\* add up to Concurrency.
C4_InFlightBounded ==
    /\ Cardinality(InFlight) <= Concurrency
    /\ \A t \in InFlight : holds[t]
    /\ permits >= 0
    /\ Cardinality({t \in Tasks : holds[t]}) + permits = Concurrency

\* every permit is out, a request is in flight and another task waits for one
C4_Witness ==
    /\ permits = 0
    /\ Cardinality(InFlight) = Concurrency
    /\ \E t \in Tasks : pc[t] = "loop" /\ BudgetLeft(err_count[t]) /\ ~holds[t]

\* C5: two requests with the same URL and the same query parameters, given
\* in a different insertion order, get the same cache key.
C5_KeyOrderIndependent ==
    Len(kkeys) = 2 => kkeys[1] = kkeys[2]

\* C6 as stated: an entry written at T is returned by every lookup before
\* T + CACHE_EXPIRY and is absent, and deleted, at every lookup from
\* T + CACHE_EXPIRY on, that instant included.
C6_ExpiryAtBoundary ==
    (lastLookup.done /\ lastLookup.file.present) =>
        /\ lastLookup.hit <=> lastLookup.at < lastLookup.file.mtime + CACHE_EXPIRY
        /\ ~lastLookup.hit => lastLookup.left = NoEntry

\* C6 as the code has it: an entry written at T is returned, and kept, by
\* every lookup up to and including T + CACHE_EXPIRY, and is absent and
\* deleted at every lookup after T + CACHE_EXPIRY.
C6_ExpiryAfterBoundary ==
    (lastLookup.done /\ lastLookup.file.present) =>
        /\ lastLookup.hit <=> lastLookup.at <= lastLookup.file.mtime + CACHE_EXPIRY
        /\ lastLookup.hit =>
               lastLookup.text = lastLookup.file.text /\ lastLookup.left = lastLookup.file
        /\ ~lastLookup.hit => lastLookup.text = <<>> /\ lastLookup.left = NoEntry

\* a lookup exactly CACHE_EXPIRY after the write, which returns the text
C6_Witness ==
    /\ lastLookup.done /\ lastLookup.file.present
    /\ lastLookup.at = lastLookup.file.mtime + CACHE_EXPIRY
    /\ lastLookup.hit /\ lastLookup.text = BodyOf(1)

RECURSIVE ConcatLinks(_)
ConcatLinks(pages) ==
    IF pages = <<>> THEN <<>> ELSE Head(pages).links \o ConcatLinks(Tail(pages))

\* C7: when show_end first reaches total on page K, the walker requests
\* pages 1..K in that order, each only after the page before it was parsed,
\* and returns the links of the K pages in page order.
C7_PagesInOrder ==
    ~overflow =>
        /\ \A i \in 1 .. Len(requested) : requested[i] = PageRequest(wkind, i)
        /\ Len(requested) = Len(served) + (IF wpc \in {"fetching", "failed"} THEN 1 ELSE 0)
        /\ \A i \in 1 .. Len(served) :
               (i < Len(served) \/ wpc # "done") => served[i].show_end < served[i].total
        /\ links = ConcatLinks(served)
        /\ wpc = "done" =>
               /\ served # <<>>
               /\ served[Len(served)].show_end >= served[Len(served)].total
               /\ Len(requested) = Len(served)

\* show_end reached total on page 3: three requests, three pages of links
C7_Witness ==
    /\ wpc = "done" /\ ~overflow
    /\ Len(requested) = 3 /\ Len(served) = 3
    /\ links = <<"a", "b", "a">>

\* C8: the walker comes to an end whatever the server does, also when every
\* page is served and reports show_end < total.
C8_WalkerTerminates == <>(wpc \in {"done", "failed"})

\* C9: a fatal condition while class C is scraped ends the run with the
\* output file of C never opened and no later class fetched; an output file
\* is opened only after every link walk and every entity fetch of its class
\* has returned.
C9_NoOutputAfterFatal ==
    /\ exit = "fatal" =>
           /\ files[target] = Untouched
           /\ \A c \in 1 .. Len(plan) : c > target => c \notin started /\ files[c] = Untouched
           /\ ~ENABLED NextRun
    /\ \A c \in DOMAIN files :
           files[c] # Untouched =>
               /\ c \in started
               /\ okWalks[c] = WalkersOf(plan[c])
               /\ c = target /\ phase = "writing" => walkersLeft = 0 /\ entLeft = 0
               /\ (c = target /\ exit # "finished") =>
                      phase = "writing" /\ okEnts[c] = found
    /\ \A c \in DOMAIN files : c \notin started => files[c] = Untouched

\* the second class hits a fatal condition after one of its entities was
\* fetched: the first file is complete, the second untouched
C9_Witness ==
    /\ exit = "fatal" /\ target = 2
    /\ files[1].st = "complete" /\ files[2] = Untouched
    /\ phase = "entities" /\ okEnts[2] = 1 /\ entLeft = 1

\* C10: whenever SIGINT ends the run, every output file is untouched or
\* holds a complete collection.
C10_NoPartialFileOnSigint ==
    exit = "killed" => \A c \in DOMAIN files : files[c].st \in {"untouched", "complete"}

\* what C11 takes for the level of a page: the table, then the two rules
ReferenceLevel(b, s, d) ==
    LET tabled == IF b \in DOMAIN LEVEL_DIFF THEN b + LEVEL_DIFF[b][s + 1] ELSE b
        lowered == IF <<b, d>> \in {<<51, 169>>, <<51, 339>>, <<61, 1116>>, <<61, 558>>}
                   THEN tabled - 5 ELSE tabled
    IN IF <<b, s, d>> = <<60, 3, 1764>> THEN lowered + 10 ELSE lowered

\* C11: the level of every record fetch_recipe returns is the reference
\* value: baseLevel when it is not in LEVEL_DIFF, else baseLevel +
\* LEVEL_DIFF[baseLevel][starCount]; then minus 5 for (51,169), (51,339),
\* (61,1116), (61,558); then plus 10 for (60, 3 stars, 1764).  (50, 2 stars)
\* gives 70, (60, 4 stars) gives 250, (51, 0 stars, 169) gives 115.
C11_LevelIsReference ==
    rout.st = "returned" =>
        /\ rout.rec.baseLevel = rpage.base
        /\ rout.rec.level = ReferenceLevel(rpage.base, rpage.stars, rpage.difficulty)
        /\ (rpage.base = 50 /\ rpage.stars = 2) => rout.rec.level = 70
        /\ (rpage.base = 60 /\ rpage.stars = 4) => rout.rec.level = 250
        /\ (rpage.base = 51 /\ rpage.stars = 0 /\ rpage.difficulty = 169) =>
               rout.rec.level = 115

\* the page of base level 60 with three stars and difficulty 1764: 60 + 150 + 10
C11_Witness ==
    /\ rout.st = "returned"
    /\ rpage.base = 60 /\ rpage.stars = 3 /\ rpage.difficulty = 1764
    /\ rout.rec.level = 220

\* C12: every record fetch_recipe returns has level >= baseLevel, the pages
\* the -5 rule applies to included.
C12_LevelAtLeastBase ==
    rout.st = "returned" => rout.rec.level >= rout.rec.baseLevel

\* a page the -5 rule applies to: 61 + 199 - 5
C12_Witness ==
    /\ rout.st = "returned"
    /\ rpage.base = 61 /\ rpage.difficulty = 558
    /\ rout.rec.level = 255 /\ rout.rec.baseLevel = 61

\* C13: for a base level of LEVEL_DIFF and a star count that is not below
\* the number of offsets listed for it, fetch_recipe raises SystemExit and
\* returns no record.
C13_StarsPastTableFatal ==
    (rout.st # "none" /\ rpage.base \in DOMAIN LEVEL_DIFF
     /\ rpage.stars >= Len(LEVEL_DIFF[rpage.base])) =>
        rout.st = "fatal" /\ rout.rec = NoRecord

\* base level 51 with one star: the row has one offset
C13_Witness ==
    /\ rpage.base = 51 /\ rpage.stars = 1
    /\ rout.st = "fatal"

\* the name of a locale before the merge, "" when the map has none
NameBefore(i, l) == IF l \in DOMAIN mbefore[i] THEN mbefore[i][l] ELSE ""

\* C14: after the merge, for every entity and every override locale L:
\* name[L] is the entry of the mapping of L for the entity's English name
\* when there is one, and is as it was before the merge when there is none.
C14_OverrideOrUnchanged ==
    mcount = 1 =>
        \A i \in 1 .. Len(mnames) : \A k \in 1 .. Len(mover) :
            LET L == mover[k][1]
                names == mover[k][2]
                english_name == mbefore[i]["en"]
            IN IF english_name \in DOMAIN names
               THEN mnames[i][L] = names[english_name]
               ELSE L \in DOMAIN mbefore[i] => mnames[i][L] = NameBefore(i, L)

\* C15: the merge applied twice gives the name maps the merge applied once
\* gives, for every collection, every mapping and every set of override
\* locales, "en" included.
C15_MergeIdempotent ==
    mcount = 2 => mnames = mfirst

\* the bonus lines of a block that one of the three patterns matches
Recognized(block) ==
    {i \in 1 .. Len(block) :
        block[i].form = "percent" /\ block[i].name \in {"Craftsmanship", "Control", "CP"}}

\* the last line of the block that gives the attribute
LastOf(block, name) ==
    block[CHOOSE i \in Recognized(block) :
              /\ block[i].name = name
              /\ \A j \in Recognized(block) : block[j].name = name => j <= i]

\* the attributes of a record are those its block gives, with the values
\* of the block
CarriesOnly(rec, block) ==
    \A a \in {<<"Craftsmanship", "craftsmanship">>, <<"Control", "control">>, <<"CP", "cp">>} :
        LET given == \E i \in Recognized(block) : block[i].name = a[1]
        IN /\ (a[2] \o "_percent") \in DOMAIN rec <=> given
           /\ (a[2] \o "_value") \in DOMAIN rec <=> given
           /\ given => /\ rec[a[2] \o "_percent"] = LastOf(block, a[1]).percent
                       /\ rec[a[2] \o "_value"] = LastOf(block, a[1]).max

\* C16: fetch_item returns no record exactly when neither quality block gives
\* a craftsmanship, control or CP attribute; otherwise it returns two records,
\* hq = false and hq = true, with the same id and the same name map, each with
\* the attributes of its own block only.  (It raises, and returns nothing,
\* only on a page without a name heading.)
C16_ItemSplit ==
    /\ iout.st = "returned" =>
           /\ iout.recs = <<>> <=> (Recognized(ipage.nq) = {} /\ Recognized(ipage.hq) = {})
           /\ iout.recs # <<>> =>
                  /\ Len(iout.recs) = 2
                  /\ iout.recs[1].hq = FALSE /\ iout.recs[2].hq = TRUE
                  /\ iout.recs[1].id = ipage.id /\ iout.recs[2].id = ipage.id
                  /\ iout.recs[1].name = iout.recs[2].name
                  /\ \A l \in LANG_HOSTS : iout.recs[1].name[l] = Head(ipage.h2[l])
                  /\ CarriesOnly(iout.recs[1], ipage.nq)
                  /\ CarriesOnly(iout.recs[2], ipage.hq)
                  /\ \A r \in 1 .. 2 :
                         DOMAIN iout.recs[r] \subseteq
                             {"id", "name", "hq", "craftsmanship_percent",
                              "craftsmanship_value", "control_percent", "control_value",
                              "cp_percent", "cp_value"}
    /\ iout.st = "raised" =>
           /\ \E l \in LANG_HOSTS : ipage.h2[l] = <<>>
           /\ Recognized(ipage.nq) # {} \/ Recognized(ipage.hq) # {}

\* an item whose normal-quality block gives craftsmanship twice and whose
\* high-quality block gives nothing: two records, the second without attribute
C16_Witness ==
    /\ iout.st = "returned" /\ Len(iout.recs) = 2
    /\ Recognized(ipage.hq) = {} /\ Len(ipage.nq) = 2
    /\ ipage.nq[1] = Bonus("Craftsmanship", "percent", 4, 30)
    /\ ipage.nq[2] = Bonus("Craftsmanship", "percent", 5, 40)
    /\ iout.recs[1].craftsmanship_percent = 5 /\ iout.recs[1].craftsmanship_value = 40
    /\ DOMAIN iout.recs[2] = {"id", "name", "hq"}

\* C17: in the record fetch_recipe returns, aspect, suggestedCraftsmanship
\* and suggestedControl are each left out if and only if no line of the
\* characteristics matched its pattern; a matched 0 is in the record as 0.
C17_OmittedIffUnmatched ==
    rout.st = "returned" =>
        LET Matches(M(_)) == {i \in 1 .. Len(rpage.lines) : M(rpage.lines[i])}
            Craft(line) == NumberMatch("Craftsmanship", line)
            Control(line) == NumberMatch("Control", line)
        IN /\ "aspect" \in DOMAIN rout.rec <=> Matches(AspectMatch) # {}
           /\ "suggestedCraftsmanship" \in DOMAIN rout.rec <=> Matches(Craft) # {}
           /\ "suggestedControl" \in DOMAIN rout.rec <=> Matches(Control) # {}

\* C18: the collection fetch_class returns holds no two records with the
\* same id, also when a link is listed by two categories or twice by one.
C18_OneRecordPerEntity ==
    cphase = "done" =>
        \A i, j \in 1 .. Len(crecipes) : i # j => crecipes[i].id # crecipes[j].id

\* C19: get_cached_text never raises: a cache file that is missing, that
\* cannot be decoded, or that goes away between stat and open makes the lookup
\* return None, and fetch goes on to the network.
C19_LookupNeverRaises ==
    \A t \in Tasks :
        /\ pc[t] # "crashed"
        /\ lastEvent[t].kind # "lookupraised"
        /\ lastEvent[t].kind = "miss" => pc[t] = "loop" /\ ENABLED FetchGet(t)

\* C20: when the body of a 200 was read and writing the cache file fails,
\* fetch returns the body: no failure is counted, no backoff, no new request.
C20_StoreFailureNotCounted ==
    [][\A t \in Tasks :
        (pc[t] = "reading" /\ lastEvent'[t].kind = "storefail") =>
            /\ pc'[t] = "returned"
            /\ result'[t] = BodyOf(t)
            /\ err_count'[t] = err_count[t]
            /\ slept'[t] = 0]_vars

\* C21: the sequence fetch_class returns, after the merge, is ascending by
\* (level, name['en']), for every override mapping and every set of override
\* locales.
C21_SortedAfterMerge ==
    cphase = "done" =>
        \A i \in 1 .. Len(crecipes) - 1 : ~KeyLess(crecipes[i + 1], crecipes[i])

\* the records of the links in the order of the list, which is the order
\* they are collected in when the fetches complete in that order
RecordsInListOrder == [i \in 1 .. Len(clinks) |-> FetchRecipeOf(PagesOf(clinks[i])).rec]

\* C22: the sequence fetch_class returns depends on the records fetched and
\* not on the order the fetches complete in: it is the sequence of the run
\* in which they complete in list order, also when two records have equal
\* sort keys.
C22_OrderIndependentOfCompletion ==
    cphase = "done" => crecipes = Assemble(RecordsInListOrder)

\* C23: a 200 whose body is malformed is handled as a transient failure: the
\* failure is counted, fetch backs off and asks again, the run goes on, and
\* the body is not written to the cache.
C23_MalformedBodyRetried ==
    [][\A t \in Tasks :
        (pc[t] = "reading" /\ lastEvent'[t].kind = "malformed") =>
            /\ err_count'[t] = err_count[t] + 1
            /\ pc'[t] = "backoff"
            /\ cache'[t] = cache[t]
            /\ ~aborted']_vars

\* C25: no task holds a permit of FETCH_SEMAPHORE while it is suspended in a
\* retry sleep, the backoff after a failure or the retry-after delay of a
\* 429: tasks waiting out a 429 leave every permit to the others.
C25_NoPermitWhileSleeping ==
    \A t \in Tasks : pc[t] \in {"sleep429", "backoff"} => ~holds[t]



\* C24: the fetch primitives of buffs.py and food.py give up after a bounded
\* number of failed attempts: against a server that always fails they stop
\* with an error instead of retrying forever, and every retry comes after a
\* backoff sleep.
C24_BoundedRetries ==
    /\ <>(bpc \in {"returned", "failed"})
    /\ [][(bpc \in {"inflight", "reading"} /\ bpc' \notin {"inflight", "reading", "returned"})
            => bpc' \in {"backoff", "failed"}]_vars

\* C26: under fair scheduling, with a server that answers every request with
\* a 200 after finitely many 429s and at most four failures, fetch returns
\* and every permit is back.  Either the fetch returns with the permits all
\* free, or something outside these assumptions has happened: a fifth answer
\* that is no 429, a cache file that cannot be read or written, a 200 with a
\* malformed body.
C26_RunCompletes ==
    \/ <>(pc[1] = "returned" /\ permits = Concurrency)
    \/ <>(\/ lastEvent[1].kind \in {"lookupraised", "storefail", "malformed"}
          \/ gets[1] - n429[1] >= MaxTries)

====
